---- MODULE Spec2Model ----
(***************************************************************************)
(* A model of tsd: the slab-partitioned time-series engine (src/db.rs,     *)
(* src/lib.rs), the canonical identity of a tag set and the tag expression *)
(* parser and evaluator (src/tags.rs).                                     *)
(*                                                                         *)
(* A Rust String is modelled as a sequence of one-character strings, so    *)
(* that formatting, sorting and joining are computed character by          *)
(* character.  An i64 is modelled as a signed integer of IntBits bits.     *)
(***************************************************************************)
EXTENDS Integers, Sequences, FiniteSets, TLC

VARIABLES
    config,          \* DB.config: [slab_duration]
    overflow_checks, \* build profile: TRUE = overflow panics, FALSE = wraps
    hot_slabs,       \* DB.hot_slabs: identity -> sequence of slabs
    clock,           \* number of Utc::now() calls made so far
    status,          \* "ok", or "panicked" once an operation has aborted
    overflowed,      \* ghost: some start_time + duration left the i64 range
    history,         \* ghost: the completed writes, in call order
    call,            \* the last call made on the engine; a read that returned
                     \* (status = "ok") has ret = <<timestamps, values>>
    tags_a, tags_b,  \* two TagSet values (HashMap<String, String>)
    inserts_a, inserts_b, \* ghost: the inserts made into tags_a and tags_b
    id_a, id_b,      \* what id() returned for tags_a and tags_b
    input,           \* the text handed to Logical::parse
    source,          \* ghost: the equalities and connectives input was written from
    logical,         \* None, or Some(what Logical::parse returned)
    verdict          \* the last evaluation made against tags_a, and its result

engine_vars == <<config, overflow_checks, hot_slabs, clock, status,
                 overflowed, history, call>>
tag_vars == <<tags_a, tags_b, inserts_a, inserts_b, id_a, id_b>>
expr_vars == <<input, source, logical, verdict>>
vars == <<engine_vars, tag_vars, expr_vars>>

\* Option<T>: None, or Some(v)
None == {}
Some(v) == {v}
unwrap(option) == CHOOSE v \in option : TRUE

(***************************************************************************)
(* Bounds                                                                  *)
(***************************************************************************)
IntBits == 4
MaxWrites == 3
MaxInserts == 3
MaxEqualities == 3

(***************************************************************************)
(* i64 arithmetic                                                          *)
(***************************************************************************)
MaxI64 == 2 ^ (IntBits - 1) - 1
MinI64 == -(2 ^ (IntBits - 1))

InRange(x) == MinI64 <= x /\ x <= MaxI64

\* two's complement wrap-around of a sum computed without overflow checks
Wrap(x) == ((x - MinI64) % (2 ^ IntBits)) + MinI64

(***************************************************************************)
(* Strings                                                                 *)
(***************************************************************************)
\* the byte of each character the model uses
CodePoint ==
    [c \in {" ", "!", "\"", ",", "1", "=", "A", "B", "C", "a", "b", "c",
            "d", "n", "o", "r"} |->
        CASE c = " " -> 32 [] c = "!" -> 33 [] c = "\"" -> 34
          [] c = "," -> 44 [] c = "1" -> 49 [] c = "=" -> 61
          [] c = "A" -> 65 [] c = "B" -> 66 [] c = "C" -> 67
          [] c = "a" -> 97 [] c = "b" -> 98 [] c = "c" -> 99
          [] c = "d" -> 100 [] c = "n" -> 110 [] c = "o" -> 111
          [] c = "r" -> 114]

\* String's Ord: lexicographic comparison of the bytes, s <= t
RECURSIVE StrLe(_, _)
StrLe(s, t) ==
    IF s = <<>> THEN TRUE
    ELSE IF t = <<>> THEN FALSE
    ELSE IF CodePoint[Head(s)] < CodePoint[Head(t)] THEN TRUE
    ELSE IF CodePoint[Head(s)] > CodePoint[Head(t)] THEN FALSE
    ELSE StrLe(Tail(s), Tail(t))

\* insert s into the sorted sequence ss, after the elements equal to it
RECURSIVE SortedInsert(_, _)
SortedInsert(s, ss) ==
    IF ss = <<>> THEN <<s>>
    ELSE IF StrLe(Head(ss), s) THEN <<Head(ss)>> \o SortedInsert(s, Tail(ss))
    ELSE <<s>> \o ss

\* Vec<String>::sort: the elements in ascending order
RECURSIVE sort(_)
sort(ss) ==
    IF ss = <<>> THEN <<>>
    ELSE SortedInsert(ss[Len(ss)], sort(SubSeq(ss, 1, Len(ss) - 1)))

\* join putting sep after every element, the last one too
RECURSIVE join_trailing(_, _)
join_trailing(ss, sep) ==
    IF ss = <<>> THEN <<>>
    ELSE ss[1] \o sep \o join_trailing(Tail(ss), sep)

\* [String]::join(sep)
RECURSIVE join(_, _)
join(ss, sep) ==
    IF ss = <<>> THEN <<>>
    ELSE IF Len(ss) = 1 THEN ss[1]
    ELSE ss[1] \o sep \o join(Tail(ss), sep)

\* format!("{}={}", k, v)
format(k, v) == k \o <<"=">> \o v

(***************************************************************************)
(* TagSet                                                                  *)
(***************************************************************************)
\* the orders in which iterating a HashMap may yield its entries
Iterations(tags) ==
    {it \in [1..Cardinality(DOMAIN tags) -> DOMAIN tags] :
        \A i, j \in DOMAIN it : i # j => it[i] # it[j]}

\* id without the sort: the pairs in the order the HashMap yields them
id_unsorted(tags, iter) ==
    join([i \in DOMAIN iter |-> format(iter[i], tags[iter[i]])], <<",">>)

\* TagSet::id, for the order iter in which self.tags.iter() yields the keys
id(tags, iter) ==
    join(sort([i \in DOMAIN iter |-> format(iter[i], tags[iter[i]])]), <<",">>)

\* HashMap::insert
insert(tags, key, value) ==
    [k \in DOMAIN tags \cup {key} |-> IF k = key THEN value ELSE tags[k]]

\* HashMap::get: the value, or None
get(tags, key) == IF key \in DOMAIN tags THEN Some(tags[key]) ELSE None

EmptyTagSet == <<>>

(***************************************************************************)
(* Slab                                                                    *)
(***************************************************************************)
\* Slab::new; now is what Utc::now().timestamp_nanos() returned
Slab_new(start_time, duration, now) ==
    [last_modified_time |-> now,
     start_time |-> start_time,
     duration |-> duration,
     times |-> <<>>,
     values |-> <<>>]

\* Slab::write
Slab_write(slab, time, value, now) ==
    [slab EXCEPT !.times = Append(@, time),
                 !.values = Append(@, value),
                 !.last_modified_time = now]

(***************************************************************************)
(* DB                                                                      *)
(***************************************************************************)
\* the tag sets the callers use: the two of the tests, and one whose value
\* holds the characters ',' and '='
tag_set_a == [k \in {<<"a">>, <<"b">>} |-> IF k = <<"a">> THEN <<"A">> ELSE <<"B">>]
tag_set_b == [k \in {<<"b">>, <<"c">>} |-> IF k = <<"b">> THEN <<"B">> ELSE <<"C">>]
tag_set_c == [k \in {<<"a">>} |-> <<"A", ",", "b", "=", "B">>]
TagSets == {tag_set_a, tag_set_b, tag_set_c}

\* every string tag_set.id() may return, whatever order the HashMap iterates in
ids(tag_set) == {id(tag_set, iter) : iter \in Iterations(tag_set)}
TagSetIds == [tag_set \in TagSets |-> ids(tag_set)]

\* the slab durations an engine is configured with (the tests configure 10
\* against 64-bit times)
SlabDurations == {2}

\* the times the callers write at: the least i64, a time whose slab ends at
\* the next one, and a time whose slab ends beyond the greatest i64
WriteTimes == {MinI64, MaxI64 - 3, MaxI64 - 1}

\* the bounds of the windows the callers read: windows that hold every time
\* written, the last times only, and no time at all (start_time >= stop_time)
StartTimes == {MinI64, MaxI64 - 1, MaxI64}
StopTimes == {MaxI64 - 1, MaxI64}

\* HashMap::entry(key).or_insert_with(Vec::new)
or_insert(map, key) ==
    IF key \in DOMAIN map THEN map
    ELSE [k \in DOMAIN map \cup {key} |-> IF k = key THEN <<>> ELSE map[k]]

\* slabs.iter_mut().find(|x| x.start_time <= time && x.start_time + x.duration < time),
\* from slab i on.  The sum is computed only when the left operand holds; when it
\* leaves the i64 range the build either panics or wraps.
RECURSIVE find(_, _, _, _)
find(slabs, time, checks, i) ==
    IF i > Len(slabs) THEN [kind |-> "None", index |-> 0, overflow |-> FALSE]
    ELSE IF ~(slabs[i].start_time <= time) THEN find(slabs, time, checks, i + 1)
    ELSE LET sum == slabs[i].start_time + slabs[i].duration IN
         IF ~InRange(sum) /\ checks
         THEN [kind |-> "panic", index |-> i, overflow |-> TRUE]
         ELSE IF Wrap(sum) < time
         THEN [kind |-> "Some", index |-> i, overflow |-> ~InRange(sum)]
         ELSE LET rest == find(slabs, time, checks, i + 1) IN
              [rest EXCEPT !.overflow = @ \/ ~InRange(sum)]

\* write_slab pushing the new slab without the slab.write(time, value)
write_slab_unwritten(slabs, maybe_slab, time, value, duration, now) ==
    IF maybe_slab.kind = "Some"
    THEN [slabs EXCEPT ![maybe_slab.index] = Slab_write(@, time, value, now)]
    ELSE Append(slabs, Slab_new(time, duration, now))

\* the slab collection after the match on maybe_slab and slab.write(time, value)
write_slab(slabs, maybe_slab, time, value, duration, now) ==
    IF maybe_slab.kind = "Some"
    THEN [slabs EXCEPT ![maybe_slab.index] = Slab_write(@, time, value, now)]
    ELSE Append(slabs, Slab_write(Slab_new(time, duration, now), time, value, now + 1))

\* the points of slab whose time is in [start_time, stop_time), in slab order
RECURSIVE slab_points(_, _, _, _)
slab_points(slab, start_time, stop_time, i) ==
    IF i > Len(slab.times) THEN <<>>
    ELSE (IF slab.times[i] >= start_time /\ slab.times[i] < stop_time
          THEN <<<<slab.times[i], slab.values[i]>>>>
          ELSE <<>>)
         \o slab_points(slab, start_time, stop_time, i + 1)

\* the loop of DB::read over the slabs, from slab i on
RECURSIVE read_slabs(_, _, _, _, _)
read_slabs(slabs, start_time, stop_time, checks, i) ==
    IF i > Len(slabs) THEN [panic |-> FALSE, overflow |-> FALSE, points |-> <<>>]
    ELSE IF slabs[i].start_time >= stop_time
    THEN read_slabs(slabs, start_time, stop_time, checks, i + 1)
    ELSE LET sum == slabs[i].start_time + slabs[i].duration
             rest == read_slabs(slabs, start_time, stop_time, checks, i + 1) IN
         IF ~InRange(sum) /\ checks
         THEN [panic |-> TRUE, overflow |-> TRUE, points |-> <<>>]
         ELSE IF Wrap(sum) <= start_time
         THEN [rest EXCEPT !.overflow = @ \/ ~InRange(sum)]
         ELSE [rest EXCEPT !.overflow = @ \/ ~InRange(sum),
                           !.points = slab_points(slabs[i], start_time, stop_time, 1) \o @]

\* insert point p into the sorted points ps, after the points of the same time
RECURSIVE insert_by_key(_, _)
insert_by_key(p, ps) ==
    IF ps = <<>> THEN <<p>>
    ELSE IF ps[1][1] <= p[1] THEN <<ps[1]>> \o insert_by_key(p, Tail(ps))
    ELSE <<p>> \o ps

\* points.sort_by_key(|p| p.0): a stable sort by time
RECURSIVE sort_by_key(_)
sort_by_key(points) ==
    IF points = <<>> THEN <<>>
    ELSE insert_by_key(points[Len(points)],
                       sort_by_key(SubSeq(points, 1, Len(points) - 1)))

\* points.into_iter().unzip()
unzip(points) ==
    <<[i \in DOMAIN points |-> points[i][1]], [i \in DOMAIN points |-> points[i][2]]>>

\* series without the sort: the points in slab order
series_unsorted(points) == unzip(points)

\* the Series DB::read returns from the points it collected
series(points) == unzip(sort_by_key(points))

\* DB::write
DB_write(tag_set, time, value) ==
    /\ status = "ok"
    /\ Len(history) < MaxWrites
    /\ \E key \in TagSetIds[tag_set] :
        LET slabs == or_insert(hot_slabs, key)[key]
            maybe_slab == find(slabs, time, overflow_checks, 1)
        IN  /\ overflowed' = (overflowed \/ maybe_slab.overflow)
            /\ IF maybe_slab.kind = "panic"
               THEN /\ hot_slabs' = or_insert(hot_slabs, key)
                    /\ status' = "panicked"
                    /\ UNCHANGED <<clock, history>>
                    /\ call' = [op |-> "write", tag_set |-> tag_set, time |-> time,
                                value |-> value]
               ELSE /\ hot_slabs' = [or_insert(hot_slabs, key) EXCEPT ![key] =
                            write_slab(slabs, maybe_slab, time, value,
                                       config.slab_duration, clock)]
                    /\ clock' = clock + (IF maybe_slab.kind = "Some" THEN 1 ELSE 2)
                    /\ history' = Append(history,
                            [tag_set |-> tag_set, time |-> time, value |-> value])
                    /\ call' = [op |-> "write", tag_set |-> tag_set, time |-> time,
                                value |-> value]
                    /\ UNCHANGED status
    /\ UNCHANGED <<config, overflow_checks, tag_vars, expr_vars>>

\* DB::read looking its slabs up as DB::write does, with entry().or_insert_with()
DB_read_or_insert(tag_set, start_time, stop_time) ==
    /\ status = "ok"
    /\ \E key \in TagSetIds[tag_set] :
        LET maybe_slabs == get(or_insert(hot_slabs, key), key)
            scan == IF maybe_slabs = None
                    THEN [panic |-> FALSE, overflow |-> FALSE, points |-> <<>>]
                    ELSE read_slabs(unwrap(maybe_slabs), start_time, stop_time,
                                    overflow_checks, 1)
        IN  /\ hot_slabs' = or_insert(hot_slabs, key)
            /\ overflowed' = (overflowed \/ scan.overflow)
            /\ status' = IF scan.panic THEN "panicked" ELSE "ok"
            /\ call' = [op |-> "read", tag_set |-> tag_set,
                        start_time |-> start_time, stop_time |-> stop_time,
                        ret |-> IF scan.panic THEN <<>> ELSE series(scan.points)]
    /\ UNCHANGED <<config, overflow_checks, clock, history,
                   tag_vars, expr_vars>>

\* DB::read without the early return for an identity that has no slabs: the
\* unwrap() of the lookup panics
DB_read_unwrap(tag_set, start_time, stop_time) ==
    /\ status = "ok"
    /\ \E key \in TagSetIds[tag_set] :
        LET maybe_slabs == get(hot_slabs, key)
            scan == IF maybe_slabs = None
                    THEN [panic |-> TRUE, overflow |-> FALSE, points |-> <<>>]
                    ELSE read_slabs(unwrap(maybe_slabs), start_time, stop_time,
                                    overflow_checks, 1)
        IN  /\ overflowed' = (overflowed \/ scan.overflow)
            /\ status' = IF scan.panic THEN "panicked" ELSE "ok"
            /\ call' = [op |-> "read", tag_set |-> tag_set,
                        start_time |-> start_time, stop_time |-> stop_time,
                        ret |-> IF scan.panic THEN <<>> ELSE series(scan.points)]
    /\ UNCHANGED <<config, overflow_checks, hot_slabs, clock, history,
                   tag_vars, expr_vars>>

\* DB::read
DB_read(tag_set, start_time, stop_time) ==
    /\ status = "ok"
    /\ \E key \in TagSetIds[tag_set] :
        LET maybe_slabs == get(hot_slabs, key)
            scan == IF maybe_slabs = None
                    THEN [panic |-> FALSE, overflow |-> FALSE, points |-> <<>>]
                    ELSE read_slabs(unwrap(maybe_slabs), start_time, stop_time,
                                    overflow_checks, 1)
        IN  /\ overflowed' = (overflowed \/ scan.overflow)
            /\ status' = IF scan.panic THEN "panicked" ELSE "ok"
            /\ call' = [op |-> "read", tag_set |-> tag_set,
                        start_time |-> start_time, stop_time |-> stop_time,
                        ret |-> IF scan.panic THEN <<>> ELSE series(scan.points)]
    /\ UNCHANGED <<config, overflow_checks, hot_slabs, clock, history,
                   tag_vars, expr_vars>>

\* DB::flush
DB_flush ==
    /\ status = "ok"
    /\ call' = [op |-> "flush"]
    /\ UNCHANGED <<config, overflow_checks, hot_slabs, clock, status, overflowed,
                   history, tag_vars, expr_vars>>

\* the variables of the tag set and expression models, at rest
TagIdle ==
    /\ tags_a = EmptyTagSet /\ tags_b = EmptyTagSet
    /\ inserts_a = <<>> /\ inserts_b = <<>>
    /\ id_a = None /\ id_b = None

ExprIdle ==
    /\ input = <<>>
    /\ source = [eqs |-> <<>>, ops |-> <<>>]
    /\ logical = None
    /\ verdict = [of |-> "none"]

\* DB::new
DB_new ==
    /\ config \in [slab_duration : SlabDurations]
    /\ overflow_checks \in BOOLEAN
    /\ hot_slabs = <<>>
    /\ clock = 0
    /\ status = "ok"
    /\ overflowed = FALSE
    /\ history = <<>>
    /\ call = [op |-> "new"]

Init == DB_new /\ TagIdle /\ ExprIdle

\* The engine never looks into a value: each write carries the number of the
\* write as its value, which tells the writes apart in what a read returns.
Next ==
    \/ \E tag_set \in TagSets, time \in WriteTimes :
         DB_write(tag_set, time, Len(history) + 1)
    \/ \E tag_set \in TagSets, start_time \in StartTimes, stop_time \in StopTimes :
         DB_read(tag_set, start_time, stop_time)
    \/ DB_flush

Spec == Init /\ [][Next]_vars

(***************************************************************************)
(* Properties of the engine                                                *)
(***************************************************************************)
\* the last call was a read, and it returned
ReadReturned == call.op = "read" /\ status = "ok"

\* the number of positions of the timestamp and value sequences holding (t, v)
Occurrences(ret, t, v) ==
    Cardinality({i \in DOMAIN ret[1] : ret[1][i] = t /\ ret[2][i] = v})

\* the number of completed writes of (t, v) to tag_set
Written(tag_set, t, v) ==
    Cardinality({i \in DOMAIN history :
        history[i].tag_set = tag_set /\ history[i].time = t /\ history[i].value = v})

\* C1: read completeness: a read of a tag set over [start_time, stop_time)
\* returns every point written to that tag set with start_time <= t < stop_time,
\* once per write.  Stated for the runs in which no sum start_time + duration
\* left the i64 range.
C1_ReadCompleteness ==
    (ReadReturned /\ ~overflowed) =>
        \A i \in DOMAIN history :
            (/\ history[i].tag_set = call.tag_set
             /\ call.start_time <= history[i].time
             /\ history[i].time < call.stop_time)
            => Occurrences(call.ret, history[i].time, history[i].value)
                 >= Written(call.tag_set, history[i].time, history[i].value)

\* C2: isolation across tag sets: every point a read of a tag set returns was
\* written to that tag set, never to a tag set with other key->value pairs.
C2_Isolation ==
    ReadReturned =>
        \A i \in DOMAIN call.ret[2] : \A j \in DOMAIN history :
            history[j].value = call.ret[2][i] => history[j].tag_set = call.tag_set

\* C4 as claimed: the timestamps a read returns are strictly ascending.
C4_StrictlyAscending ==
    ReadReturned =>
        \A i, j \in DOMAIN call.ret[1] : i < j => call.ret[1][i] < call.ret[1][j]

\* C4: the timestamps a read returns are in non-decreasing order, whatever
\* order the writes arrived in and whichever slabs they landed in.
C4_Ascending ==
    ReadReturned =>
        \A i, j \in DOMAIN call.ret[1] : i < j => call.ret[1][i] <= call.ret[1][j]

\* two writes arrived out of time order, landed in two slabs of one identity,
\* and a read returned both
C4_Witness ==
    /\ ReadReturned
    /\ Len(history) >= 2
    /\ history[1].tag_set = call.tag_set
    /\ history[2].tag_set = call.tag_set
    /\ history[1].time > history[2].time
    /\ \E key \in DOMAIN hot_slabs : Len(hot_slabs[key]) >= 2
    /\ call.ret[1] = <<history[2].time, history[1].time>>

\* C5: read and flush leave the engine state unchanged (the index with its key
\* set, every slab's fields, the configuration), and a read repeated with the
\* same arguments returns the same series.
C5_ReadFlushFrame ==
    [][/\ call'.op \in {"read", "flush"} =>
            /\ hot_slabs' = hot_slabs
            /\ config' = config
       /\ (/\ ReadReturned /\ ReadReturned'
           /\ call'.tag_set = call.tag_set
           /\ call'.start_time = call.start_time
           /\ call'.stop_time = call.stop_time) => call'.ret = call.ret]_vars

\* a read of an identity never written returned, in an engine that holds data
C5_Witness ==
    /\ ReadReturned
    /\ hot_slabs # <<>>
    /\ \A key \in TagSetIds[call.tag_set] : key \notin DOMAIN hot_slabs

\* C6: write and read are total: no call fails, and no sum start_time + duration
\* leaves the i64 range.
C6_Totality == status = "ok" /\ ~overflowed

\* C12: in any engine state, a read with start_time >= stop_time does not fail
\* and returns two empty sequences.
C12_EmptyWindow ==
    (call.op = "read" /\ call.start_time >= call.stop_time) =>
        (status = "ok" /\ call.ret = <<<<>>, <<>>>>)

\* no completed write went to the identity of tag_set
NeverWritten(tag_set) ==
    \A i \in DOMAIN history :
        TagSetIds[history[i].tag_set] \cap TagSetIds[tag_set] = {}

SlabsOf(index, tag_set) ==
    LET key == CHOOSE k \in TagSetIds[tag_set] : TRUE
    IN IF key \in DOMAIN index THEN index[key] ELSE <<>>

\* slab satisfies the selection predicate of write for time, in the integers
Selects(slab, time) ==
    slab.start_time <= time /\ slab.start_time + slab.duration < time

\* after is before with (time, value) appended to slab i and nothing else
AppendedTo(before, after, i, time, value) ==
    /\ Len(after) = Len(before)
    /\ \A j \in DOMAIN before : j # i =>
        /\ after[j].start_time = before[j].start_time
        /\ after[j].duration = before[j].duration
        /\ after[j].times = before[j].times
        /\ after[j].values = before[j].values
    /\ after[i].start_time = before[i].start_time
    /\ after[i].duration = before[i].duration
    /\ after[i].times = Append(before[i].times, time)
    /\ after[i].values = Append(before[i].values, value)

\* after is before with one new slab at its end, created at time and holding
\* (time, value) only
NewSlabFor(before, after, duration, time, value) ==
    /\ Len(after) = Len(before) + 1
    /\ \A j \in DOMAIN before :
        /\ after[j].start_time = before[j].start_time
        /\ after[j].duration = before[j].duration
        /\ after[j].times = before[j].times
        /\ after[j].values = before[j].values
    /\ after[Len(after)].start_time = time
    /\ after[Len(after)].duration = duration
    /\ after[Len(after)].times = <<time>>
    /\ after[Len(after)].values = <<value>>

\* C14: write(tag_set, time, value) appends (time, value) to exactly one slab
\* of the identity: the first slab, in creation order, with start_time <= time
\* and start_time + duration < time; when no slab satisfies this, and only
\* then, to one new slab with start_time = time and duration = slab_duration,
\* appended at the end of the collection.
C14_SlabSelection ==
    [][call'.op = "write" =>
        LET before == SlabsOf(hot_slabs, call'.tag_set)
            after == SlabsOf(hot_slabs', call'.tag_set)
            selected == {i \in DOMAIN before : Selects(before[i], call'.time)}
        IN IF selected = {}
           THEN NewSlabFor(before, after, config.slab_duration,
                           call'.time, call'.value)
           ELSE \E i \in selected :
                    /\ \A j \in selected : i <= j
                    /\ AppendedTo(before, after, i, call'.time, call'.value)]_vars

\* C15: read soundness and alignment: the two sequences a read returns have
\* equal length, every returned time is in [start_time, stop_time), every
\* returned (time, value) was written together by a write to that tag set, and
\* no pair is returned more often than it was written.
C15_ReadSoundness ==
    ReadReturned =>
        /\ Len(call.ret[1]) = Len(call.ret[2])
        /\ \A i \in DOMAIN call.ret[1] :
            /\ call.start_time <= call.ret[1][i] /\ call.ret[1][i] < call.stop_time
            /\ Occurrences(call.ret, call.ret[1][i], call.ret[2][i])
                 <= Written(call.tag_set, call.ret[1][i], call.ret[2][i])

\* old is the beginning of new
IsPrefix(old, new) ==
    Len(old) <= Len(new) /\ SubSeq(new, 1, Len(old)) = old

\* the number of points the slabs hold, from slab i on
RECURSIVE StoredPoints(_, _)
StoredPoints(slabs, i) ==
    IF i > Len(slabs) THEN 0
    ELSE Len(slabs[i].times) + StoredPoints(slabs, i + 1)

\* C16: storage is append-only: no operation removes or reorders the slabs of
\* a collection or changes the start_time or duration of a slab, and the old
\* times and values of a slab stay as a prefix; each write adds exactly one
\* point to the slabs of its identity and leaves the other identities alone.
C16_AppendOnly ==
    [][
        /\ \A key \in DOMAIN hot_slabs :
            /\ key \in DOMAIN hot_slabs'
            /\ Len(hot_slabs'[key]) >= Len(hot_slabs[key])
            /\ \A j \in DOMAIN hot_slabs[key] :
                /\ hot_slabs'[key][j].start_time = hot_slabs[key][j].start_time
                /\ hot_slabs'[key][j].duration = hot_slabs[key][j].duration
                /\ IsPrefix(hot_slabs[key][j].times, hot_slabs'[key][j].times)
                /\ IsPrefix(hot_slabs[key][j].values, hot_slabs'[key][j].values)
        /\ call'.op = "write" =>
            /\ StoredPoints(SlabsOf(hot_slabs', call'.tag_set), 1)
                 = StoredPoints(SlabsOf(hot_slabs, call'.tag_set), 1) + 1
            /\ \A key \in DOMAIN hot_slabs' : key \notin TagSetIds[call'.tag_set] =>
                 (key \in DOMAIN hot_slabs /\ hot_slabs'[key] = hot_slabs[key])]_vars

\* C17: every point a slab stores, other than its first, has a time strictly
\* greater than start_time + duration: only the point that created a slab can
\* lie inside the slab's window [start_time, start_time + duration).
C17_LaterPointsBeyondWindow ==
    \A key \in DOMAIN hot_slabs : \A j \in DOMAIN hot_slabs[key] :
        LET slab == hot_slabs[key][j]
        IN \A k \in DOMAIN slab.times :
            k > 1 => slab.times[k] > slab.start_time + slab.duration

\* C18: every identity of the index has at least one slab, and every slab
\* holds at least one point, as many values as times, and its start_time as
\* its first time.
C18_NonEmpty ==
    \A key \in DOMAIN hot_slabs :
        /\ Len(hot_slabs[key]) >= 1
        /\ \A j \in DOMAIN hot_slabs[key] :
            LET slab == hot_slabs[key][j]
            IN /\ Len(slab.times) >= 1
               /\ Len(slab.values) = Len(slab.times)
               /\ slab.times[1] = slab.start_time

\* an identity has two slabs, the first with two points and the second
\* created by the last write
C18_Witness ==
    /\ call.op = "write" /\ status = "ok"
    /\ LET slabs == SlabsOf(hot_slabs, call.tag_set)
       IN /\ Len(slabs) = 2
          /\ Len(slabs[1].times) = 2
          /\ slabs[2].times = <<call.time>>

(***************************************************************************)
(* Tag sets built by their callers, and their identities                   *)
(***************************************************************************)
\* the pairs the callers insert: those of the tests, a key that extends
\* another key by a character below '=', and a value holding ',' and '='
TagPairs ==
    {<<<<"a">>, <<"A">>>>, <<<<"b">>, <<"B">>>>, <<<<"a", "1">>, <<"A">>>>,
     <<<<"a">>, <<"A", ",", "b", "=", "B">>>>}

\* the engine, not constructed
EngineIdle ==
    /\ config = [slab_duration |-> 0]
    /\ overflow_checks = FALSE
    /\ hot_slabs = <<>>
    /\ clock = 0
    /\ status = "ok"
    /\ overflowed = FALSE
    /\ history = <<>>
    /\ call = [op |-> "none"]

\* TagSet::new
TagSet_new ==
    /\ tags_a = EmptyTagSet /\ tags_b = EmptyTagSet
    /\ inserts_a = <<>> /\ inserts_b = <<>>
    /\ id_a = None /\ id_b = None

\* tags.insert(key, value) on tags_a
TagSet_insert_a(key, value) ==
    /\ Len(inserts_a) < MaxInserts
    /\ tags_a' = insert(tags_a, key, value)
    /\ inserts_a' = Append(inserts_a, <<key, value>>)
    /\ id_a' = None
    /\ UNCHANGED <<tags_b, inserts_b, id_b, engine_vars, expr_vars>>

\* tags.insert(key, value) on tags_b
TagSet_insert_b(key, value) ==
    /\ Len(inserts_b) < MaxInserts
    /\ tags_b' = insert(tags_b, key, value)
    /\ inserts_b' = Append(inserts_b, <<key, value>>)
    /\ id_b' = None
    /\ UNCHANGED <<tags_a, inserts_a, id_a, engine_vars, expr_vars>>

\* tags_a.id()
TagSet_id_a ==
    /\ \E iter \in Iterations(tags_a) : id_a' = Some(id(tags_a, iter))
    /\ UNCHANGED <<tags_a, inserts_a, tags_b, inserts_b, id_b, engine_vars, expr_vars>>

\* tags_b.id()
TagSet_id_b ==
    /\ \E iter \in Iterations(tags_b) : id_b' = Some(id(tags_b, iter))
    /\ UNCHANGED <<tags_a, inserts_a, tags_b, inserts_b, id_a, engine_vars, expr_vars>>

TagInit == TagSet_new /\ EngineIdle /\ ExprIdle

TagNext ==
    \/ \E pair \in TagPairs : TagSet_insert_a(pair[1], pair[2])
    \/ \E pair \in TagPairs : TagSet_insert_b(pair[1], pair[2])
    \/ TagSet_id_a
    \/ TagSet_id_b

TagSpec == TagInit /\ [][TagNext]_vars

\* C3: identity order-independence: two tag sets holding the same pairs have
\* the same id(), whatever order the pairs were inserted in and whatever order
\* the maps iterate in.
C3_OrderIndependence ==
    (id_a # None /\ id_b # None /\ tags_a = tags_b) => id_a = id_b

\* b=B then a=A on one side, a=A then b=B on the other: both ids are "a=A,b=B"
C3_Witness ==
    /\ inserts_a = <<<<<<"b">>, <<"B">>>>, <<<<"a">>, <<"A">>>>>>
    /\ inserts_b = <<<<<<"a">>, <<"A">>>>, <<<<"b">>, <<"B">>>>>>
    /\ id_a = Some(<<"a", "=", "A", ",", "b", "=", "B">>)
    /\ id_b = id_a

\* the pairs of tags in the order given, each written key=value, with a ','
\* between two pairs and none after the last
RECURSIVE Listing(_, _, _)
Listing(tags, order, i) ==
    IF i > Len(order) THEN <<>>
    ELSE (IF i > 1 THEN <<",">> ELSE <<>>)
         \o order[i] \o <<"=">> \o tags[order[i]]
         \o Listing(tags, order, i + 1)

\* C7 as claimed: id() lists the pairs in the lexicographic order of their keys.
C7_KeyOrder ==
    id_a # None =>
        \E order \in Iterations(tags_a) :
            /\ \A i, j \in DOMAIN order : i < j => StrLe(order[i], order[j])
            /\ unwrap(id_a) = Listing(tags_a, order, 1)

\* C7: id() is the pairs written key=value, listed in the lexicographic byte
\* order of these key=value strings, with a single ',' between two pairs and
\* none after the last; the empty tag set gives the empty string.
C7_PairOrder ==
    id_a # None =>
        \E order \in Iterations(tags_a) :
            /\ \A i, j \in DOMAIN order : i < j =>
                   StrLe(order[i] \o <<"=">> \o tags_a[order[i]],
                         order[j] \o <<"=">> \o tags_a[order[j]])
            /\ unwrap(id_a) = Listing(tags_a, order, 1)

\* the tag set {a=A, a1=A}, whose id is "a1=A,a=A"
C7_Witness ==
    /\ DOMAIN tags_a = {<<"a">>, <<"a", "1">>}
    /\ id_a = Some(<<"a", "1", "=", "A", ",", "a", "=", "A">>)

\* the empty tag set, whose id is the empty string
C7_WitnessEmpty == tags_a = EmptyTagSet /\ id_a = Some(<<>>)

\* C19: id() is injective on tag sets, for keys and values that are any
\* strings without '"' ('=' and ',' included): two tag sets with the same id
\* hold the same key->value pairs.
C19_Injective ==
    (id_a # None /\ id_b # None /\ id_a = id_b) => tags_a = tags_b

(***************************************************************************)
(* Tag expressions: the grammar, Logical::parse and the evaluator          *)
(***************************************************************************)
\* text without its leading spaces
RECURSIVE skip_ws(_)
skip_ws(text) ==
    IF text # <<>> /\ Head(text) = " " THEN skip_ws(Tail(text)) ELSE text

starts_with(text, word) ==
    Len(text) >= Len(word) /\ SubSeq(text, 1, Len(word)) = word

drop(text, n) == SubSeq(text, n + 1, Len(text))

\* QuotedString: a '"', the text up to the next '"', and that '"'
pest_String(text) ==
    IF text # <<>> /\ Head(text) = "\"" /\ \E j \in 2..Len(text) : text[j] = "\""
    THEN LET close == CHOOSE j \in 2..Len(text) :
                 /\ text[j] = "\""
                 /\ \A k \in 2..(j - 1) : text[k] # "\""
         IN [ok |-> TRUE, str |-> SubSeq(text, 1, close), rest |-> drop(text, close)]
    ELSE [ok |-> FALSE, str |-> <<>>, rest |-> text]

\* '==' | '!='
pest_EqualityOp(text) ==
    IF starts_with(text, <<"=", "=">>)
    THEN [ok |-> TRUE, rule |-> "Equals", rest |-> drop(text, 2)]
    ELSE IF starts_with(text, <<"!", "=">>)
    THEN [ok |-> TRUE, rule |-> "NotEquals", rest |-> drop(text, 2)]
    ELSE [ok |-> FALSE, rule |-> "", rest |-> text]

\* 'and' | 'or'
pest_LogicalOp(text) ==
    IF starts_with(text, <<"a", "n", "d">>)
    THEN [ok |-> TRUE, rule |-> "And", rest |-> drop(text, 3)]
    ELSE IF starts_with(text, <<"o", "r">>)
    THEN [ok |-> TRUE, rule |-> "Or", rest |-> drop(text, 2)]
    ELSE [ok |-> FALSE, rule |-> "", rest |-> text]

\* Equality ::= QuotedString ('==' | '!=') QuotedString
pest_Equality(text) ==
    LET lhs == pest_String(text)
        op == pest_EqualityOp(skip_ws(lhs.rest))
        rhs == pest_String(skip_ws(op.rest))
    IN [ok |-> lhs.ok /\ op.ok /\ rhs.ok,
        lhs |-> lhs.str, op |-> op.rule, rhs |-> rhs.str, rest |-> rhs.rest]

\* Logical ::= Equality (('and' | 'or') Logical)?, the pairs it yields: the
\* equality's, then if a connective follows its rule and the text of the
\* nested Logical; rest is the text after the match
RECURSIVE pest_Logical(_)
pest_Logical(text) ==
    LET equality == pest_Equality(text)
        op == pest_LogicalOp(skip_ws(equality.rest))
        next == skip_ws(op.rest)
        nested == pest_Logical(next)
    IN IF ~equality.ok
       THEN [ok |-> FALSE, equality |-> equality, op |-> None, next |-> <<>>,
             rest |-> text]
       ELSE IF op.ok /\ nested.ok
       THEN [ok |-> TRUE, equality |-> equality, op |-> Some(op.rule),
             next |-> SubSeq(next, 1, Len(next) - Len(nested.rest)),
             rest |-> nested.rest]
       ELSE [ok |-> TRUE, equality |-> equality, op |-> None, next |-> <<>>,
             rest |-> equality.rest]

\* TagsParser::parse(Rule::Logical, input): the whole text is to conform
TagsParser_parse_Logical(text) ==
    LET rules == pest_Logical(text)
    IN [rules EXCEPT !.ok = rules.ok /\ skip_ws(rules.rest) = <<>>]

\* str::trim_matches(c): without its leading and its trailing c's
RECURSIVE trim_start_matches(_, _)
trim_start_matches(str, c) ==
    IF str # <<>> /\ Head(str) = c THEN trim_start_matches(Tail(str), c) ELSE str

RECURSIVE trim_end_matches(_, _)
trim_end_matches(str, c) ==
    IF str # <<>> /\ str[Len(str)] = c
    THEN trim_end_matches(SubSeq(str, 1, Len(str) - 1), c)
    ELSE str

\* trim_matches leaving the string as it is
trim_matches_none(str, c) == str

trim_matches(str, c) == trim_end_matches(trim_start_matches(str, c), c)

\* Logical::Just and Logical::Also
Just(equality) == [kind |-> "Just", eq |-> equality]
Also(equality, op, tail) == [kind |-> "Also", eq |-> equality, op |-> op, tail |-> tail]

\* what a call returns that panicked in an unwrap()
Panic == [kind |-> "panic"]

\* Logical::parse
RECURSIVE Logical_parse(_)
Logical_parse(text) ==
    LET rules == TagsParser_parse_Logical(text) IN
    IF ~rules.ok THEN Panic
    ELSE LET lhs == trim_matches(rules.equality.lhs, "\"")
             op == CASE rules.equality.op = "Equals" -> "Equals"
                     [] rules.equality.op = "NotEquals" -> "NotEquals"
             rhs == trim_matches(rules.equality.rhs, "\"")
             equality == [op |-> op, lhs |-> lhs, rhs |-> rhs]
             maybe_op == rules.op
         IN IF maybe_op = None THEN Just(equality)
            ELSE LET lop == CASE unwrap(maybe_op) = "And" -> "And"
                              [] unwrap(maybe_op) = "Or" -> "Or"
                     tail == Logical_parse(rules.next)
                 IN IF tail = Panic THEN Panic ELSE Also(equality, lop, tail)

\* matches_eq comparing the value of key lhs with the text rhs
matches_eq_literal(tags, equality) ==
    LET is_equal == get(tags, equality.lhs) = Some(equality.rhs)
    IN IF equality.op = "Equals" THEN is_equal ELSE ~is_equal

\* TagSet::matches_eq
matches_eq(tags, equality) ==
    LET is_equal == get(tags, equality.lhs) = get(tags, equality.rhs)
    IN IF equality.op = "Equals" THEN is_equal ELSE ~is_equal

\* matches_logical with && and || exchanged
RECURSIVE matches_logical_swapped(_, _)
matches_logical_swapped(tags, node) ==
    IF node.kind = "Just" THEN matches_eq(tags, node.eq)
    ELSE IF node.op = "And"
    THEN matches_eq(tags, node.eq) \/ matches_logical_swapped(tags, node.tail)
    ELSE matches_eq(tags, node.eq) /\ matches_logical_swapped(tags, node.tail)

\* TagSet::matches_logical
RECURSIVE matches_logical(_, _)
matches_logical(tags, node) ==
    IF node.kind = "Just" THEN matches_eq(tags, node.eq)
    ELSE IF node.op = "And"
    THEN matches_eq(tags, node.eq) /\ matches_logical(tags, node.tail)
    ELSE matches_eq(tags, node.eq) \/ matches_logical(tags, node.tail)

\* the equalities the callers write: operands that are keys of equal values,
\* keys of different values, a key and no key, and no keys at all
Equalities ==
    {[op |-> "Equals", lhs |-> <<"a">>, rhs |-> <<"b">>],
     [op |-> "Equals", lhs |-> <<"a">>, rhs |-> <<"c">>],
     [op |-> "Equals", lhs |-> <<"a">>, rhs |-> <<"A">>],
     [op |-> "Equals", lhs |-> <<"A">>, rhs |-> <<"d">>],
     [op |-> "NotEquals", lhs |-> <<"a">>, rhs |-> <<"b">>],
     [op |-> "NotEquals", lhs |-> <<"a">>, rhs |-> <<"c">>]}

\* the tag sets the expressions are evaluated against
expr_tag_set ==
    [k \in {<<"a">>, <<"b">>, <<"c">>} |-> IF k = <<"c">> THEN <<"C">> ELSE <<"A">>]
ExprTagSets == {expr_tag_set, EmptyTagSet}

\* chains of n equalities and n - 1 connectives
Chains(n) ==
    [eqs : [1..n -> Equalities], ops : [1..(n - 1) -> {"And", "Or"}]]
Sources == UNION {Chains(n) : n \in 1..MaxEqualities}

\* the text of an equality and of a chain, as the tests write them
RenderEquality(equality) ==
    <<"\"">> \o equality.lhs \o <<"\"", " ">>
    \o (IF equality.op = "Equals" THEN <<"=", "=">> ELSE <<"!", "=">>)
    \o <<" ", "\"">> \o equality.rhs \o <<"\"">>

RECURSIVE Render(_, _)
Render(chain, i) ==
    RenderEquality(chain.eqs[i])
    \o (IF i = Len(chain.eqs) THEN <<>>
        ELSE <<" ">>
             \o (IF chain.ops[i] = "And" THEN <<"a", "n", "d">> ELSE <<"o", "r">>)
             \o <<" ">> \o Render(chain, i + 1))

\* texts that are no expression of the grammar: empty, cut off after the
\* operator, an operand without its quotes, a connective that is none
Malformed ==
    {<<>>,
     <<"\"", "a", "\"", " ", "=", "=">>,
     <<"a", " ", "=", "=", " ", "\"", "b", "\"">>,
     <<"\"", "a", "\"", " ", "=", "=", " ", "\"", "b", "\"", " ", "n", "o", "r", " ",
       "\"", "a", "\"", " ", "=", "=", " ", "\"", "c", "\"">>}

\* the chain of no equality, the source of a text that is no expression
NoChain == [eqs |-> <<>>, ops |-> <<>>]

\* the caller has a text and a tag set
ExprInit ==
    /\ \/ source \in Sources /\ input = Render(source, 1)
       \/ source = NoChain /\ input \in Malformed
    /\ logical = None
    /\ verdict = [of |-> "none"]
    /\ tags_a \in ExprTagSets
    /\ tags_b = EmptyTagSet
    /\ inserts_a = <<>> /\ inserts_b = <<>>
    /\ id_a = None /\ id_b = None
    /\ EngineIdle

\* logical = Logical::parse(input)
Parse ==
    /\ logical = None
    /\ logical' = Some(Logical_parse(input))
    /\ UNCHANGED <<input, source, verdict, tag_vars, engine_vars>>

\* the equalities of a chain, head first
RECURSIVE EqualitiesOf(_)
EqualitiesOf(node) ==
    IF node.kind = "Just" THEN <<node.eq>>
    ELSE <<node.eq>> \o EqualitiesOf(node.tail)

\* tags_a.matches_eq(equality), for an equality of the parsed expression
MatchesEq ==
    /\ logical # None /\ unwrap(logical) # Panic
    /\ \E i \in DOMAIN EqualitiesOf(unwrap(logical)) :
        LET equality == EqualitiesOf(unwrap(logical))[i]
        IN verdict' = [of |-> "eq", equality |-> equality,
                       value |-> matches_eq(tags_a, equality)]
    /\ UNCHANGED <<input, source, logical, tag_vars, engine_vars>>

\* tags_a.matches_logical(logical)
MatchesLogical ==
    /\ logical # None /\ unwrap(logical) # Panic
    /\ verdict' = [of |-> "logical",
                   value |-> matches_logical(tags_a, unwrap(logical))]
    /\ UNCHANGED <<input, source, logical, tag_vars, engine_vars>>

ExprNext == Parse \/ MatchesEq \/ MatchesLogical

ExprSpec == ExprInit /\ [][ExprNext]_vars

\* the connectives of a chain, head first
RECURSIVE ConnectivesOf(_)
ConnectivesOf(node) ==
    IF node.kind = "Just" THEN <<>>
    ELSE <<node.op>> \o ConnectivesOf(node.tail)

\* the two operands, looked up as keys of tags, give the same result: both
\* are absent, or both are present with the same value
SameLookup(tags, equality) ==
    \/ equality.lhs \notin DOMAIN tags /\ equality.rhs \notin DOMAIN tags
    \/ /\ equality.lhs \in DOMAIN tags /\ equality.rhs \in DOMAIN tags
       /\ tags[equality.lhs] = tags[equality.rhs]

Holds(tags, equality) ==
    IF equality.op = "Equals" THEN SameLookup(tags, equality)
    ELSE ~SameLookup(tags, equality)

Negated(equality) ==
    [equality EXCEPT !.op = IF @ = "Equals" THEN "NotEquals" ELSE "Equals"]

\* C8: matches_eq looks both operands up as keys and compares the results, an
\* absent key being equal to an absent key only; Equals returns the
\* comparison, NotEquals its negation, so the two give opposite verdicts.
C8_EqualityEvaluation ==
    verdict.of = "eq" =>
        /\ verdict.value = Holds(tags_a, verdict.equality)
        /\ matches_eq(tags_a, Negated(verdict.equality)) = ~verdict.value

\* "a" == "A" against {a=A, b=A, c=C}: the key a is present, no key A is, and
\* the verdict is false
C8_Witness ==
    /\ tags_a = expr_tag_set
    /\ verdict.of = "eq"
    /\ verdict.equality = [op |-> "Equals", lhs |-> <<"a">>, rhs |-> <<"A">>]
    /\ verdict.value = FALSE

\* the value of the chain eqs[1] ops[1] eqs[2] ... read from the left: the
\* first equality k that decides it (a true one before an Or or at the end),
\* every equality before k having let the evaluation go on (true before an
\* And, false before an Or)
ChainValue(tags, eqs, ops) ==
    \E k \in DOMAIN eqs :
        /\ Holds(tags, eqs[k])
        /\ (k = Len(eqs) \/ ops[k] = "Or")
        /\ \A j \in 1..(k - 1) :
               IF ops[j] = "And" THEN Holds(tags, eqs[j]) ELSE ~Holds(tags, eqs[j])

\* C9: matches_logical evaluates a chain from the right with no precedence:
\* an And node is false when its head is false, else the value of the
\* remainder; an Or node is true when its head is true, else the value of
\* the remainder.  So e1 and e2 or e3 is e1 AND (e2 OR e3), and
\* e1 or e2 and e3 is e1 OR (e2 AND e3).
C9_ChainEvaluation ==
    verdict.of = "logical" =>
        LET eqs == EqualitiesOf(unwrap(logical))
            ops == ConnectivesOf(unwrap(logical))
            v(i) == Holds(tags_a, eqs[i])
        IN /\ verdict.value = ChainValue(tags_a, eqs, ops)
           /\ ops = <<"And", "Or">> => verdict.value = (v(1) /\ (v(2) \/ v(3)))
           /\ ops = <<"Or", "And">> => verdict.value = (v(1) \/ (v(2) /\ v(3)))

\* e1 or e2 and e3 with e1 true and e3 false is true
C9_Witness ==
    /\ tags_a = expr_tag_set
    /\ Len(source.eqs) = 3
    /\ source.eqs[1] = [op |-> "Equals", lhs |-> <<"a">>, rhs |-> <<"b">>]
    /\ source.eqs[3] = [op |-> "Equals", lhs |-> <<"a">>, rhs |-> <<"c">>]
    /\ source.ops = <<"Or", "And">>
    /\ verdict = [of |-> "logical", value |-> TRUE]

\* the AST of the chain from its equality i on: nested to the right
RECURSIVE Nested(_, _)
Nested(chain, i) ==
    IF i = Len(chain.eqs) THEN [kind |-> "Just", eq |-> chain.eqs[i]]
    ELSE [kind |-> "Also", eq |-> chain.eqs[i], op |-> chain.ops[i],
          tail |-> Nested(chain, i + 1)]

\* C10: parsing the text of n >= 1 equalities joined by n - 1 connectives gives
\* Just(equality) when n = 1 and else Also(first equality, connective, the AST
\* of the rest): equalities and connectives in source order, nested to the
\* right, the operands without their quotes, == as Equals, != as NotEquals,
\* and as And, or as Or.
C10_AstShape ==
    (logical # None /\ source # NoChain) => unwrap(logical) = Nested(source, 1)

\* a text of three equalities was parsed into Also(_, _, Also(_, _, Just(_)))
C10_Witness ==
    /\ logical # None
    /\ Len(source.eqs) = 3
    /\ unwrap(logical).kind = "Also"
    /\ unwrap(logical).tail.kind = "Also"
    /\ unwrap(logical).tail.tail.kind = "Just"

\* C11: Logical::parse of a text that does not conform to the grammar returns
\* a ParseError to the caller: the call does not abort.
C11_ParseError ==
    (logical # None /\ source = NoChain) => unwrap(logical).kind = "ParseError"

====
